---- MODULE Spec2Model ----
(***************************************************************************)
(* A model of jwt.go: the Token entity, the segment codec, the signing     *)
(* string builder and the Parse validation pipeline.                       *)
(*                                                                         *)
(* Go strings and byte slices are sequences of byte values (0..255).       *)
(* JSON numbers are float64 values that are multiples of 1/2, held as a    *)
(* count of halves (h = 3 is 1.5), which float64 represents exactly.       *)
(***************************************************************************)
EXTENDS Integers, Sequences, FiniteSets, TLC

(***************************************************************************)
(* Bytes used by the texts of the model                                    *)
(***************************************************************************)
DOT == 46
PAD == 61
QUOTE == 34
COLON == 58
COMMA == 44
LBRACE == 123
RBRACE == 125
MINUS == 45
ZERO == 48

(* "alg", "typ", "exp", "nbf", "JWT", "null", "true", "false" *)
K_alg == <<97, 108, 103>>
K_typ == <<116, 121, 112>>
K_exp == <<101, 120, 112>>
K_nbf == <<110, 98, 102>>
K_sub == <<115, 117, 98>>
S_JWT == <<74, 87, 84>>
S_null == <<110, 117, 108, 108>>
S_true == <<116, 114, 117, 101>>
S_false == <<102, 97, 108, 115, 101>>
S_HS256 == <<72, 83, 50, 53, 54>>
S_HS384 == <<72, 83, 51, 56, 52>>
S_RS256 == <<82, 83, 50, 53, 54>>

(***************************************************************************)
(* Errors: a Go error value is nil or carries a message                    *)
(***************************************************************************)
NoErr == [nil |-> TRUE, msg |-> ""]
Err(msg) == [nil |-> FALSE, msg |-> msg]

(***************************************************************************)
(* strings package                                                         *)
(***************************************************************************)
RECURSIVE TrimRight(_, _)
TrimRight(s, c) ==
  IF s # <<>> /\ s[Len(s)] = c THEN TrimRight(SubSeq(s, 1, Len(s) - 1), c) ELSE s

(* strings.Split(s, "."): the pieces between the separators, at least one *)
Seps(s) == {i \in 1..Len(s) : s[i] = DOT}

(* position of the n-th of the separators seps of a string of length len; *)
(* 0 before the first, len + 1 after the last                              *)
SepAt(seps, len, n) ==
  IF n = 0 THEN 0
  ELSE IF n > Cardinality(seps) THEN len + 1
  ELSE CHOOSE i \in seps : Cardinality({j \in seps : j < i}) = n - 1

Split(s) ==
  LET seps == Seps(s)
  IN [n \in 1..(Cardinality(seps) + 1) |->
        SubSeq(s, SepAt(seps, Len(s), n - 1) + 1, SepAt(seps, Len(s), n) - 1)]

(* strings.Join(parts, ".") *)
RECURSIVE Join(_)
Join(ps) ==
  IF ps = <<>> THEN <<>>
  ELSE IF Len(ps) = 1 THEN ps[1]
  ELSE ps[1] \o <<DOT>> \o Join(Tail(ps))

(***************************************************************************)
(* encoding/base64, URLEncoding (alphabet A-Z a-z 0-9 - _, padding '=')    *)
(***************************************************************************)
B64Char(v) ==
  IF v < 26 THEN 65 + v
  ELSE IF v < 52 THEN 97 + (v - 26)
  ELSE IF v < 62 THEN 48 + (v - 52)
  ELSE IF v = 62 THEN 45 ELSE 95

(* the 6-bit value of a character of the alphabet, -1 for any other byte *)
B64Val(c) ==
  IF c >= 65 /\ c <= 90 THEN c - 65
  ELSE IF c >= 97 /\ c <= 122 THEN c - 97 + 26
  ELSE IF c >= 48 /\ c <= 57 THEN c - 48 + 52
  ELSE IF c = 45 THEN 62
  ELSE IF c = 95 THEN 63 ELSE -1

RECURSIVE EncodeToString(_)
EncodeToString(src) ==
  IF src = <<>> THEN <<>>
  ELSE IF Len(src) = 1 THEN
    <<B64Char(src[1] \div 4), B64Char((src[1] % 4) * 16), PAD, PAD>>
  ELSE IF Len(src) = 2 THEN
    <<B64Char(src[1] \div 4),
      B64Char((src[1] % 4) * 16 + src[2] \div 16),
      B64Char((src[2] % 16) * 4), PAD>>
  ELSE
    <<B64Char(src[1] \div 4),
      B64Char((src[1] % 4) * 16 + src[2] \div 16),
      B64Char((src[2] % 16) * 4 + src[3] \div 64),
      B64Char(src[3] % 64)>> \o EncodeToString(SubSeq(src, 4, Len(src)))

(* Decoding, quanta of four characters; padding only closes the last   *)
(* quantum ("xx==" or "xxx="), and anything after it is an error, as is an *)
(* incomplete quantum.  Result: [ok, out].                                 *)
DecodeFail == [ok |-> FALSE, out |-> <<>>]

RECURSIVE DecodeQuanta(_, _)
DecodeQuanta(s, i) ==
  IF i > Len(s) THEN [ok |-> TRUE, out |-> <<>>]
  ELSE IF Len(s) - i + 1 < 4 THEN DecodeFail
  ELSE
    LET a == B64Val(s[i])
        b == B64Val(s[i + 1])
        c == B64Val(s[i + 2])
        d == B64Val(s[i + 3])
        last == i + 3 = Len(s)
    IN IF a < 0 \/ b < 0 THEN DecodeFail
       ELSE IF c >= 0 /\ d >= 0 THEN
         LET r == DecodeQuanta(s, i + 4)
         IN IF r.ok
            THEN [ok |-> TRUE,
                  out |-> <<a * 4 + b \div 16, (b % 16) * 16 + c \div 4,
                            (c % 4) * 64 + d>> \o r.out]
            ELSE DecodeFail
       ELSE IF s[i + 2] = PAD /\ s[i + 3] = PAD /\ last THEN
         [ok |-> TRUE, out |-> <<a * 4 + b \div 16>>]
       ELSE IF c >= 0 /\ s[i + 3] = PAD /\ last THEN
         [ok |-> TRUE, out |-> <<a * 4 + b \div 16, (b % 16) * 16 + c \div 4>>]
       ELSE DecodeFail

(* the decoder skips carriage returns and line feeds wherever they stand *)
IsNewline(c) == c = 10 \/ c = 13
Kept(s) == {i \in 1..Len(s) : ~IsNewline(s[i])}
SkipNewlines(s) ==
  IF Kept(s) = 1..Len(s) THEN s
  ELSE [n \in 1..Cardinality(Kept(s)) |->
          s[CHOOSE i \in Kept(s) : Cardinality({j \in Kept(s) : j < i}) = n - 1]]

DecodeString(s) == DecodeQuanta(SkipNewlines(s), 1)

(***************************************************************************)
(* Segment codec                                                           *)
(***************************************************************************)
EncodeSegment(seg) == TrimRight(EncodeToString(seg), PAD)

DecodeSegment(seg) ==
  LET r == Len(seg) % 4
      padded == IF r = 2 THEN seg \o <<PAD, PAD>>
                ELSE IF r = 3 THEN seg \o <<PAD, PAD, PAD>>
                ELSE seg
  IN DecodeString(padded)

(***************************************************************************)
(* JSON values held in map[string]interface{}                              *)
(*   t = "str": a string s;  t = "num": a float64 of h halves;             *)
(*   t = "bool": h = 1 for true;  t = "null";  t = "func": a Go value that *)
(*   has no JSON form (a func or a channel put in the map by the caller).  *)
(* A Go map is [nil, kv]: the nil map has no entries.                      *)
(***************************************************************************)
StrV(s) == [t |-> "str", s |-> s, h |-> 0]
NumV(h) == [t |-> "num", s |-> <<>>, h |-> h]
BoolV(b) == [t |-> "bool", s |-> <<>>, h |-> IF b THEN 1 ELSE 0]
NullV == [t |-> "null", s |-> <<>>, h |-> 0]
FuncV == [t |-> "func", s |-> <<>>, h |-> 0]

EmptyKV == [k \in {} |-> NullV]
NilMap == [nil |-> TRUE, kv |-> EmptyKV]
MakeMap(kv) == [nil |-> FALSE, kv |-> kv]
Put(kv, k, v) == [x \in DOMAIN kv \cup {k} |-> IF x = k THEN v ELSE kv[x]]

(* m[k].(string) and m[k].(float64): the comma-ok type assertions *)
IsString(m, k) == k \in DOMAIN m.kv /\ m.kv[k].t = "str"
IsFloat64(m, k) == k \in DOMAIN m.kv /\ m.kv[k].t = "num"

(* int64(f): conversion of a float64 truncates toward zero *)
Int64(h) == IF h >= 0 THEN h \div 2 ELSE -((-h) \div 2)

(***************************************************************************)
(* encoding/json, Marshal of a map: keys sorted bytewise, no whitespace    *)
(***************************************************************************)
RECURSIVE LexLess(_, _)
LexLess(a, b) ==
  IF a = <<>> THEN b # <<>>
  ELSE IF b = <<>> THEN FALSE
  ELSE IF a[1] # b[1] THEN a[1] < b[1]
  ELSE LexLess(Tail(a), Tail(b))

RECURSIVE SortedKeys(_)
SortedKeys(S) ==
  IF S = {} THEN <<>>
  ELSE LET m == CHOOSE x \in S : \A y \in S \ {x} : LexLess(x, y)
       IN <<m>> \o SortedKeys(S \ {m})

RECURSIVE Digits(_)
Digits(n) == IF n < 10 THEN <<ZERO + n>> ELSE Digits(n \div 10) \o <<ZERO + (n % 10)>>

(* strconv formatting of a float64 with the shortest representation *)
FormatFloat(h) ==
  LET a == IF h < 0 THEN -h ELSE h
  IN (IF h < 0 THEN <<MINUS>> ELSE <<>>) \o Digits(a \div 2)
     \o (IF a % 2 = 1 THEN <<DOT, ZERO + 5>> ELSE <<>>)

MarshalValue(v) ==
  IF v.t = "str" THEN <<QUOTE>> \o v.s \o <<QUOTE>>
  ELSE IF v.t = "num" THEN FormatFloat(v.h)
  ELSE IF v.t = "bool" THEN (IF v.h = 1 THEN S_true ELSE S_false)
  ELSE S_null

RECURSIVE MarshalMembers(_, _)
MarshalMembers(kv, ks) ==
  IF ks = <<>> THEN <<>>
  ELSE <<QUOTE>> \o ks[1] \o <<QUOTE, COLON>> \o MarshalValue(kv[ks[1]])
       \o (IF Len(ks) > 1 THEN <<COMMA>> ELSE <<>>)
       \o MarshalMembers(kv, Tail(ks))

(* the error of json.Marshal: an unsupported value anywhere in the map *)
MarshalErr(m) ==
  IF \E k \in DOMAIN m.kv : m.kv[k].t = "func"
  THEN Err("json: unsupported type") ELSE NoErr

Marshal(m) ==
  IF m.nil THEN S_null
  ELSE <<LBRACE>> \o MarshalMembers(m.kv, SortedKeys(DOMAIN m.kv)) \o <<RBRACE>>

(***************************************************************************)
(* encoding/json, Unmarshal into a map[string]interface{}.                 *)
(* The scanner covers the JSON the model's inputs are written in: objects  *)
(* of string keys and string, number, true, false and null values, without *)
(* whitespace, escapes, exponents or nesting, and fractions of .0 and .5;  *)
(* every input of the model is inside this grammar or is not JSON at all.  *)
(***************************************************************************)
At(s, i) == IF i >= 1 /\ i <= Len(s) THEN s[i] ELSE -1
IsDigit(c) == c >= 48 /\ c <= 57
ScanFail == [ok |-> FALSE, next |-> 0, v |-> NullV]

RECURSIVE ScanString(_, _, _)
ScanString(s, i, acc) ==
  IF i > Len(s) \/ s[i] < 32 \/ s[i] = 92 THEN [ok |-> FALSE, next |-> 0, s |-> <<>>]
  ELSE IF s[i] = QUOTE THEN [ok |-> TRUE, next |-> i + 1, s |-> acc]
  ELSE ScanString(s, i + 1, Append(acc, s[i]))

RECURSIVE ScanDigits(_, _)
ScanDigits(s, i) == IF IsDigit(At(s, i)) THEN ScanDigits(s, i + 1) ELSE i

RECURSIVE DigitsValue(_, _, _)
DigitsValue(s, i, j) ==
  IF j <= i THEN 0 ELSE DigitsValue(s, i, j - 1) * 10 + (s[j - 1] - ZERO)

ScanNumber(s, i) ==
  LET j == IF At(s, i) = MINUS THEN i + 1 ELSE i
      k == IF At(s, j) = ZERO THEN j + 1 ELSE ScanDigits(s, j)
      f == IF At(s, k) = DOT THEN ScanDigits(s, k + 1) ELSE k
      whole == DigitsValue(s, j, k)
      frac == IF f > k THEN DigitsValue(s, k + 1, f) ELSE 0
      half == f > k /\ At(s, k + 1) = ZERO + 5 /\ DigitsValue(s, k + 2, f) = 0
      a == 2 * whole + (IF half THEN 1 ELSE 0)
  IN IF k = j \/ (At(s, k) = DOT /\ f = k + 1) THEN ScanFail
     ELSE IF frac # 0 /\ ~half THEN ScanFail
     ELSE IF At(s, f) = 101 \/ At(s, f) = 69 THEN ScanFail
     ELSE [ok |-> TRUE, next |-> f, v |-> NumV(IF j > i THEN -a ELSE a)]

HasLiteral(s, i, lit) ==
  i + Len(lit) - 1 <= Len(s) /\ SubSeq(s, i, i + Len(lit) - 1) = lit

ScanValue(s, i) ==
  LET c == At(s, i)
  IN IF c = QUOTE THEN
       LET r == ScanString(s, i + 1, <<>>)
       IN IF r.ok THEN [ok |-> TRUE, next |-> r.next, v |-> StrV(r.s)] ELSE ScanFail
     ELSE IF c = MINUS \/ IsDigit(c) THEN ScanNumber(s, i)
     ELSE IF HasLiteral(s, i, S_true) THEN [ok |-> TRUE, next |-> i + 4, v |-> BoolV(TRUE)]
     ELSE IF HasLiteral(s, i, S_false) THEN [ok |-> TRUE, next |-> i + 5, v |-> BoolV(FALSE)]
     ELSE IF HasLiteral(s, i, S_null) THEN [ok |-> TRUE, next |-> i + 4, v |-> NullV]
     ELSE ScanFail

(* the members of an object from position i on; a repeated key keeps the last value *)
RECURSIVE ScanMembers(_, _, _)
ScanMembers(s, i, kv) ==
  IF At(s, i) # QUOTE THEN [ok |-> FALSE, next |-> 0, kv |-> kv]
  ELSE
    LET k == ScanString(s, i + 1, <<>>)
    IN IF ~k.ok \/ At(s, k.next) # COLON THEN [ok |-> FALSE, next |-> 0, kv |-> kv]
       ELSE
         LET v == ScanValue(s, k.next + 1)
             kv2 == Put(kv, k.s, v.v)
         IN IF ~v.ok THEN [ok |-> FALSE, next |-> 0, kv |-> kv]
            ELSE IF At(s, v.next) = COMMA THEN ScanMembers(s, v.next + 1, kv2)
            ELSE IF At(s, v.next) = RBRACE THEN [ok |-> TRUE, next |-> v.next + 1, kv |-> kv2]
            ELSE [ok |-> FALSE, next |-> 0, kv |-> kv]

ScanObject(s, kv) ==
  IF At(s, 1) # LBRACE THEN [ok |-> FALSE, next |-> 0, kv |-> kv]
  ELSE IF At(s, 2) = RBRACE THEN [ok |-> TRUE, next |-> 3, kv |-> kv]
  ELSE ScanMembers(s, 2, kv)

(* json.Unmarshal(data, &m): null leaves m as it is, an object fills m     *)
(* (allocating it when nil), any other text is an error.  Result: [ok, m]. *)
Unmarshal(data, m) ==
  IF data = S_null THEN [ok |-> TRUE, m |-> m]
  ELSE LET r == ScanObject(data, m.kv)
       IN IF r.ok /\ r.next = Len(data) + 1
          THEN [ok |-> TRUE, m |-> MakeMap(r.kv)]
          ELSE [ok |-> FALSE, m |-> m]

(***************************************************************************)
(* The signing capability.  SigningMethod and the registry behind          *)
(* GetSigningMethod are consumed through their interface only: a method is *)
(* known by its name, Sign is a keyed position-weighted checksum of the    *)
(* signing input, Verify accepts exactly what Sign produces, and both      *)
(* reject the empty key.                                                   *)
(***************************************************************************)
NoMethod == <<>>
RegisteredMethods == {S_HS256, S_HS384}

GetSigningMethod(alg) == IF alg \in RegisteredMethods THEN alg ELSE NoMethod

Alg(method) == method

(* the sum of i * s[i] over lo..hi *)
RECURSIVE WeightedSum(_, _, _)
WeightedSum(s, lo, hi) ==
  IF lo > hi THEN 0
  ELSE IF lo = hi THEN lo * s[lo]
  ELSE LET mid == (lo + hi) \div 2
       IN WeightedSum(s, lo, mid) + WeightedSum(s, mid + 1, hi)

Checksum(s) == WeightedSum(s, 1, Len(s))

Digest(method, sstr, key) ==
  (Checksum(sstr) + 7 * Checksum(key) + Checksum(method)) % 251

Sign(method, sstr, key) ==
  IF key = <<>> THEN [sig |-> <<>>, err |-> Err("key is invalid")]
  ELSE [sig |-> EncodeSegment(<<Digest(method, sstr, key)>>), err |-> NoErr]

Verify(method, sstr, sig, key) ==
  IF key = <<>> THEN Err("key is invalid")
  ELSE IF sig = EncodeSegment(<<Digest(method, sstr, key)>>) THEN NoErr
  ELSE Err("signature is invalid")

(***************************************************************************)
(* Token                                                                   *)
(***************************************************************************)
Token(raw, header, claims, method, signature, valid) ==
  [Raw |-> raw, Header |-> header, Claims |-> claims, Method |-> method,
   Signature |-> signature, Valid |-> valid]

ZeroToken == Token(<<>>, NilMap, NilMap, NoMethod, <<>>, FALSE)

New(method) ==
  Token(<<>>,
        MakeMap(Put(Put(EmptyKV, K_typ, StrV(S_JWT)), K_alg, StrV(Alg(method)))),
        MakeMap(EmptyKV), method, <<>>, FALSE)

(* Result of SigningString and SignedString: [s, err, signed], signed      *)
(* telling whether Method.Sign was called.                                 *)
SigningString(t) ==
  IF ~MarshalErr(t.Header).nil
  THEN [s |-> <<>>, err |-> MarshalErr(t.Header), signed |-> FALSE]
  ELSE IF ~MarshalErr(t.Claims).nil
  THEN [s |-> <<>>, err |-> MarshalErr(t.Claims), signed |-> FALSE]
  ELSE [s |-> Join(<<EncodeSegment(Marshal(t.Header)), EncodeSegment(Marshal(t.Claims))>>),
        err |-> NoErr, signed |-> FALSE]

(* SignedString that calls Method.Sign before looking at the error of      *)
(* SigningString                                                           *)
SignedString_SignsFirst(t, key) ==
  LET ss == SigningString(t)
      sg == Sign(t.Method, ss.s, key)
  IN IF ~ss.err.nil THEN [s |-> <<>>, err |-> ss.err, signed |-> TRUE]
     ELSE IF ~sg.err.nil THEN [s |-> <<>>, err |-> sg.err, signed |-> TRUE]
     ELSE [s |-> Join(<<ss.s, sg.sig>>), err |-> NoErr, signed |-> TRUE]

SignedString(t, key) ==
  LET ss == SigningString(t)
      sg == Sign(t.Method, ss.s, key)
  IN IF ~ss.err.nil THEN [s |-> <<>>, err |-> ss.err, signed |-> FALSE]
     ELSE IF ~sg.err.nil THEN [s |-> <<>>, err |-> sg.err, signed |-> TRUE]
     ELSE [s |-> Join(<<ss.s, sg.sig>>), err |-> NoErr, signed |-> TRUE]

(***************************************************************************)
(* ValidationError                                                         *)
(***************************************************************************)
ValidationError(err, malformed, unverifiable, signatureInvalid, expired, notValidYet) ==
  [err |-> err, Malformed |-> malformed, Unverifiable |-> unverifiable,
   SignatureInvalid |-> signatureInvalid, Expired |-> expired,
   NotValidYet |-> notValidYet]

ZeroValidationError == ValidationError("", FALSE, FALSE, FALSE, FALSE, FALSE)

(* Valid that forgets the signature flag *)
Valid_IgnoresSignature(e) ==
  IF e.Malformed \/ e.Unverifiable \/ e.Expired \/ e.NotValidYet
  THEN FALSE ELSE TRUE

Valid(e) ==
  IF e.Malformed \/ e.Unverifiable \/ e.SignatureInvalid \/ e.Expired \/ e.NotValidYet
  THEN FALSE ELSE TRUE

(***************************************************************************)
(* Bounds and inputs                                                       *)
(***************************************************************************)
MaxNow == 1       \* TimeFunc().Unix() ranges over -1..MaxNow
MaxHalf == 2      \* numeric claims range over -MaxHalf/2 .. MaxHalf/2 in steps of 1/2
MaxClaims == 1    \* entries a caller puts into the Claims of a token it builds

Times == -1..MaxNow
Halves == -MaxHalf..MaxHalf

KeyA == <<107>>
KeyB == <<120>>
Keys == {KeyA, KeyB}

(* what the caller's keyFunc returns: a key, or an error *)
KeyFuncs == {[key |-> k, err |-> NoErr] : k \in Keys}
            \cup {[key |-> <<>>, err |-> Err("key lookup failed")]}

(***************************************************************************)
(* State                                                                   *)
(***************************************************************************)
VARIABLES
  tok,          \* the token a caller builds: [made, t]
  out,          \* the last SigningString / SignedString call: [op, key, s, err, signed]
  pc,           \* position of the Parse call: idle, header, claims, method, key,
                \* time, verify, final, done
  tokenString,  \* Parse argument
  keyFunc,      \* Parse argument: what the callback returns
  clock,        \* the second TimeFunc() reports during the call
  parts,        \* Parse local
  token,        \* Parse local: the Token behind the returned pointer
  key,          \* Parse local
  vErr,         \* Parse local: the aggregating ValidationError
  now,          \* Parse local
  ret,          \* Parse result: [tokenNil, errNil, ve], meaningful at pc = "done"
  calls,        \* the outside calls Parse made so far, in order
  codec,        \* the last EncodeSegment / DecodeSegment call: [op, arg, ok, res, orig]
  req           \* the request handed to ParseFromRequest: [auth, form, source, err]

vars == <<tok, out, pc, tokenString, keyFunc, clock, parts, token, key, vErr, now,
          ret, calls, codec, req>>

builder == <<tok, out>>
args == <<tokenString, keyFunc, clock, parts>>

NoOut == [op |-> "none", key |-> <<>>, s |-> <<>>, err |-> NoErr, signed |-> FALSE]
NoRet == [tokenNil |-> TRUE, errNil |-> TRUE, ve |-> ZeroValidationError]
NoCodec == [op |-> "none", arg |-> <<>>, ok |-> TRUE, res |-> <<>>, orig |-> <<>>]
NoReq == [auth |-> <<>>, form |-> <<>>, source |-> "none", err |-> NoErr]
Call(fn, method, sstr, sig, k) ==
  [fn |-> fn, method |-> method, sstr |-> sstr, sig |-> sig, key |-> k]

Init ==
  /\ tok = [made |-> FALSE, t |-> ZeroToken]
  /\ out = NoOut
  /\ pc = "idle"
  /\ tokenString = <<>>
  /\ keyFunc = [key |-> <<>>, err |-> NoErr]
  /\ clock = 0
  /\ parts = <<>>
  /\ token = ZeroToken
  /\ key = <<>>
  /\ vErr = ZeroValidationError
  /\ now = 0
  /\ ret = NoRet
  /\ calls = <<>>
  /\ codec = NoCodec
  /\ req = NoReq

(***************************************************************************)
(* Parse, one action per stage of the pipeline                             *)
(***************************************************************************)
(* return token, &ValidationError{...} *)
ReturnError(ve) ==
  /\ pc' = "done"
  /\ ret' = [tokenNil |-> FALSE, errNil |-> FALSE, ve |-> ve]

(* ParseBegin that accepts three or more segments *)
ParseBegin_AtLeastThree(s, kf, t) ==
  /\ pc = "idle"
  /\ tokenString' = s
  /\ keyFunc' = kf
  /\ clock' = t
  /\ parts' = Split(s)
  /\ IF Len(Split(s)) >= 3
     THEN /\ token' = [ZeroToken EXCEPT !.Raw = s]
          /\ pc' = "header"
          /\ ret' = ret
     ELSE /\ token' = token
          /\ pc' = "done"
          /\ ret' = [tokenNil |-> TRUE, errNil |-> FALSE,
                     ve |-> ValidationError("Token contains an invalid number of segments",
                                            TRUE, FALSE, FALSE, FALSE, FALSE)]
  /\ UNCHANGED <<key, vErr, now, calls>>

(* lines 88-91 and 154-156: split, and the token for three segments *)
ParseBegin(s, kf, t) ==
  /\ pc = "idle"
  /\ tokenString' = s
  /\ keyFunc' = kf
  /\ clock' = t
  /\ parts' = Split(s)
  /\ IF Len(Split(s)) = 3
     THEN /\ token' = [ZeroToken EXCEPT !.Raw = s]
          /\ pc' = "header"
          /\ ret' = ret
     ELSE /\ token' = token
          /\ pc' = "done"
          /\ ret' = [tokenNil |-> TRUE, errNil |-> FALSE,
                     ve |-> ValidationError("Token contains an invalid number of segments",
                                            TRUE, FALSE, FALSE, FALSE, FALSE)]
  /\ UNCHANGED <<key, vErr, now, calls>>

(* ParseHeader that returns no token when the header does not decode *)
ParseHeader_NilOnError ==
  /\ pc = "header"
  /\ LET d == DecodeSegment(parts[1])
         u == Unmarshal(d.out, token.Header)
     IN IF ~d.ok \/ ~u.ok
        THEN /\ pc' = "done"
             /\ ret' = [tokenNil |-> TRUE, errNil |-> FALSE,
                        ve |-> ValidationError("malformed header", TRUE, FALSE, FALSE, FALSE, FALSE)]
             /\ token' = token
        ELSE /\ token' = [token EXCEPT !.Header = u.m]
             /\ pc' = "claims"
             /\ ret' = ret
  /\ UNCHANGED <<builder, codec, req, args, key, vErr, now, calls>>

(* lines 93-99 *)
ParseHeader ==
  /\ pc = "header"
  /\ LET d == DecodeSegment(parts[1])
         u == Unmarshal(d.out, token.Header)
     IN IF ~d.ok
        THEN /\ ReturnError(ValidationError("illegal base64 data", TRUE, FALSE, FALSE, FALSE, FALSE))
             /\ token' = token
        ELSE IF ~u.ok
        THEN /\ ReturnError(ValidationError("invalid JSON", TRUE, FALSE, FALSE, FALSE, FALSE))
             /\ token' = token
        ELSE /\ token' = [token EXCEPT !.Header = u.m]
             /\ pc' = "claims"
             /\ ret' = ret
  /\ UNCHANGED <<builder, codec, req, args, key, vErr, now, calls>>

(* lines 101-108 *)
ParseClaims ==
  /\ pc = "claims"
  /\ LET d == DecodeSegment(parts[2])
         u == Unmarshal(d.out, token.Claims)
     IN IF ~d.ok
        THEN /\ ReturnError(ValidationError("illegal base64 data", TRUE, FALSE, FALSE, FALSE, FALSE))
             /\ token' = token
        ELSE IF ~u.ok
        THEN /\ ReturnError(ValidationError("invalid JSON", TRUE, FALSE, FALSE, FALSE, FALSE))
             /\ token' = token
        ELSE /\ token' = [token EXCEPT !.Claims = u.m]
             /\ pc' = "method"
             /\ ret' = ret
  /\ UNCHANGED <<builder, codec, req, args, key, vErr, now, calls>>

(* ParseMethod that goes on to the key lookup with an unregistered alg *)
ParseMethod_KeepsGoing ==
  /\ pc = "method"
  /\ IF IsString(token.Header, K_alg)
     THEN /\ token' = [token EXCEPT !.Method = GetSigningMethod(token.Header.kv[K_alg].s)]
          /\ pc' = "key"
          /\ ret' = ret
     ELSE /\ token' = token
          /\ ReturnError(ValidationError("Signing method (alg) is unspecified.",
                                         FALSE, TRUE, FALSE, FALSE, FALSE))
  /\ UNCHANGED <<builder, codec, req, args, key, vErr, now, calls>>

(* ParseMethod that resolves the method without storing it in the token *)
ParseMethod_MethodUnset ==
  /\ pc = "method"
  /\ token' = token
  /\ IF IsString(token.Header, K_alg)
     THEN IF GetSigningMethod(token.Header.kv[K_alg].s) = NoMethod
          THEN ReturnError(ValidationError("Signing method (alg) is unavailable.",
                                           FALSE, TRUE, FALSE, FALSE, FALSE))
          ELSE pc' = "key" /\ ret' = ret
     ELSE ReturnError(ValidationError("Signing method (alg) is unspecified.",
                                      FALSE, TRUE, FALSE, FALSE, FALSE))
  /\ UNCHANGED <<builder, codec, req, args, key, vErr, now, calls>>

(* lines 110-117 *)
ParseMethod ==
  /\ pc = "method"
  /\ IF IsString(token.Header, K_alg)
     THEN LET m == GetSigningMethod(token.Header.kv[K_alg].s)
          IN /\ token' = [token EXCEPT !.Method = m]
             /\ IF m = NoMethod
                THEN ReturnError(ValidationError("Signing method (alg) is unavailable.",
                                                 FALSE, TRUE, FALSE, FALSE, FALSE))
                ELSE pc' = "key" /\ ret' = ret
     ELSE /\ token' = token
          /\ ReturnError(ValidationError("Signing method (alg) is unspecified.",
                                         FALSE, TRUE, FALSE, FALSE, FALSE))
  /\ UNCHANGED <<builder, codec, req, args, key, vErr, now, calls>>

(* ParseKey that goes on to the time checks when the lookup failed *)
ParseKey_KeepsGoing ==
  /\ pc = "key"
  /\ calls' = Append(calls, Call("keyFunc", token.Method, <<>>, <<>>, <<>>))
  /\ key' = keyFunc.key
  /\ pc' = "time"
  /\ ret' = ret
  /\ UNCHANGED <<builder, codec, req, args, token, vErr, now>>

(* lines 119-123 *)
ParseKey ==
  /\ pc = "key"
  /\ calls' = Append(calls, Call("keyFunc", token.Method, <<>>, <<>>, <<>>))
  /\ key' = keyFunc.key
  /\ IF ~keyFunc.err.nil
     THEN ReturnError(ValidationError(keyFunc.err.msg, FALSE, TRUE, FALSE, FALSE, FALSE))
     ELSE pc' = "time" /\ ret' = ret
  /\ UNCHANGED <<builder, codec, req, args, token, vErr, now>>

(* ParseTime that counts now = exp as expired and now = nbf as too early *)
ParseTime_Inclusive ==
  /\ pc = "time"
  /\ calls' = Append(calls, Call("TimeFunc", token.Method, <<>>, <<>>, <<>>))
  /\ now' = clock
  /\ LET expired == IsFloat64(token.Claims, K_exp)
                    /\ clock >= Int64(token.Claims.kv[K_exp].h)
         notYet == IsFloat64(token.Claims, K_nbf)
                   /\ clock <= Int64(token.Claims.kv[K_nbf].h)
     IN vErr' = ValidationError(IF notYet THEN "Token is not valid yet"
                                ELSE IF expired THEN "Token is expired" ELSE "",
                                FALSE, FALSE, FALSE, expired, notYet)
  /\ pc' = "verify"
  /\ UNCHANGED <<builder, codec, req, args, token, key, ret>>

(* lines 125-139 *)
ParseTime ==
  /\ pc = "time"
  /\ calls' = Append(calls, Call("TimeFunc", token.Method, <<>>, <<>>, <<>>))
  /\ now' = clock
  /\ LET expired == IsFloat64(token.Claims, K_exp)
                    /\ clock > Int64(token.Claims.kv[K_exp].h)
         notYet == IsFloat64(token.Claims, K_nbf)
                   /\ clock < Int64(token.Claims.kv[K_nbf].h)
     IN vErr' = ValidationError(IF notYet THEN "Token is not valid yet"
                                ELSE IF expired THEN "Token is expired" ELSE "",
                                FALSE, FALSE, FALSE, expired, notYet)
  /\ pc' = "verify"
  /\ UNCHANGED <<builder, codec, req, args, token, key, ret>>

(* ParseVerify that reports a failed signature as Unverifiable *)
ParseVerify_WrongFlag ==
  /\ pc = "verify"
  /\ LET sstr == Join(SubSeq(parts, 1, 2))
         err == Verify(token.Method, sstr, parts[3], key)
     IN /\ calls' = Append(calls, Call("Verify", token.Method, sstr, parts[3], key))
        /\ vErr' = IF ~err.nil
                   THEN [vErr EXCEPT !.err = err.msg, !.Unverifiable = TRUE]
                   ELSE vErr
  /\ pc' = "final"
  /\ UNCHANGED <<builder, codec, req, args, token, key, now, ret>>

(* ParseVerify that verifies a re-serialization of the decoded header and  *)
(* claims                                                                  *)
ParseVerify_Reserializes ==
  /\ pc = "verify"
  /\ LET sstr == Join(<<EncodeSegment(Marshal(token.Header)),
                        EncodeSegment(Marshal(token.Claims))>>)
         err == Verify(token.Method, sstr, parts[3], key)
     IN /\ calls' = Append(calls, Call("Verify", token.Method, sstr, parts[3], key))
        /\ vErr' = IF ~err.nil
                   THEN [vErr EXCEPT !.err = err.msg, !.SignatureInvalid = TRUE]
                   ELSE vErr
  /\ pc' = "final"
  /\ UNCHANGED <<builder, codec, req, args, token, key, now, ret>>

(* lines 141-145 *)
ParseVerify ==
  /\ pc = "verify"
  /\ LET sstr == Join(SubSeq(parts, 1, 2))
         err == Verify(token.Method, sstr, parts[3], key)
     IN /\ calls' = Append(calls, Call("Verify", token.Method, sstr, parts[3], key))
        /\ vErr' = IF ~err.nil
                   THEN [vErr EXCEPT !.err = err.msg, !.SignatureInvalid = TRUE]
                   ELSE vErr
  /\ pc' = "final"
  /\ UNCHANGED <<builder, codec, req, args, token, key, now, ret>>

(* lines 147-152 *)
ParseFinal ==
  /\ pc = "final"
  /\ IF Valid(vErr)
     THEN /\ token' = [token EXCEPT !.Valid = TRUE]
          /\ ret' = [tokenNil |-> FALSE, errNil |-> TRUE, ve |-> ZeroValidationError]
     ELSE /\ token' = token
          /\ ret' = [tokenNil |-> FALSE, errNil |-> FALSE, ve |-> vErr]
  /\ pc' = "done"
  /\ UNCHANGED <<builder, codec, req, args, key, vErr, now, calls>>

(***************************************************************************)
(* Token strings handed to Parse by a caller that did not build them       *)
(***************************************************************************)
Seg(m) == EncodeSegment(Marshal(m))

(* a claim value as a sender may write it: absent (NullV of kind "none"),  *)
(* a number, or the string "-1"                                            *)
Absent == [t |-> "none", s |-> <<>>, h |-> 0]
ClaimValues == {Absent, StrV(<<MINUS, ZERO + 1>>)} \cup {NumV(h) : h \in Halves}
Fillers == {Absent, StrV(<<97>>), StrV(<<97, 98>>)}

With(kv, k, v) == IF v = Absent THEN kv ELSE Put(kv, k, v)

ClaimsInputs ==
  {MakeMap(With(With(With(EmptyKV, K_exp, e), K_nbf, n), K_sub, f)) :
     e \in ClaimValues, n \in ClaimValues, f \in Fillers}

GoodHeader == Seg(New(S_HS256).Header)
GoodClaims == Seg(MakeMap(Put(EmptyKV, K_sub, StrV(<<97, 98>>))))

OtherHeaders ==
  { Seg(New(S_HS384).Header),                                   \* another registered method
    Seg(MakeMap(Put(EmptyKV, K_typ, StrV(S_JWT)))),              \* no alg
    Seg(MakeMap(Put(EmptyKV, K_alg, NumV(2)))),                  \* alg is a number
    Seg(MakeMap(Put(EmptyKV, K_alg, NullV))),                    \* alg is null
    Seg(New(S_RS256).Header),                                    \* alg not registered
    Seg(NilMap),                                                 \* the JSON text null
    Seg(MakeMap(Put(Put(EmptyKV, K_alg, StrV(S_HS256)), K_sub, StrV(<<97, 98>>)))),
                                                                 \* 4n+3 characters
    EncodeSegment(<<LBRACE>>),                                   \* not JSON
    EncodeSegment(<<ZERO + 1>>),                                 \* JSON, not an object
    <<33, 33, 33, 33>>,                                          \* not base64
    <<65, 65, 65, 65, 65>>,                                      \* 4n+1 characters
    GoodHeader \o <<10>>,                                        \* a line feed at the end
    <<>> }

(* the claims {"sub":"a","exp":1}, keys not in the order Marshal writes *)
UnsortedClaims ==
  EncodeSegment(<<LBRACE, QUOTE>> \o K_sub \o <<QUOTE, COLON, QUOTE, 97, QUOTE, COMMA, QUOTE>>
                \o K_exp \o <<QUOTE, COLON, ZERO + 1, RBRACE>>)

OtherClaims ==
  { Seg(NilMap), EncodeSegment(<<LBRACE>>), EncodeSegment(<<ZERO + 1>>),
    <<33, 33, 33, 33>>, <<65, 65, 65, 65, 65>>, <<>>, UnsortedClaims }

BadSig == <<65, 65>>
SigOf(method, h, c, k) == Sign(method, Join(<<h, c>>), k).sig

ThreeSegmentInputs ==
  UNION {{Join(<<GoodHeader, Seg(c), s>>) :
            s \in {BadSig, SigOf(S_HS256, GoodHeader, Seg(c), KeyA)}} :
         c \in ClaimsInputs}
  \cup {Join(<<h, GoodClaims, SigOf(S_HS384, h, GoodClaims, KeyA)>>) : h \in OtherHeaders}
  \cup {Join(<<GoodHeader, c, SigOf(S_HS256, GoodHeader, c, KeyA)>>) : c \in OtherClaims}

OtherCountInputs ==
  { <<>>,
    GoodHeader,
    Join(<<GoodHeader, GoodClaims>>),
    Join(<<GoodHeader, GoodClaims, SigOf(S_HS256, GoodHeader, GoodClaims, KeyA), BadSig>>),
    Join(<<GoodHeader, GoodClaims, SigOf(S_HS256, GoodHeader, GoodClaims, KeyA), <<>>>>) }

(* a signed token, and the strings that differ from it in one character   *)
(* of the header or claims segment, the signature left as it was           *)
BaseToken == Join(<<GoodHeader, GoodClaims, SigOf(S_HS256, GoodHeader, GoodClaims, KeyA)>>)
Tamper(s, i, d) == [s EXCEPT ![i] = B64Char((B64Val(s[i]) + d) % 64)]
TamperedInputs ==
  {Tamper(BaseToken, i, d) :
     i \in (1..(Len(GoodHeader) + 1 + Len(GoodClaims))) \ {Len(GoodHeader) + 1},
     d \in {1, 2, 32}}

TokenInputs == ThreeSegmentInputs \cup OtherCountInputs \cup TamperedInputs

(***************************************************************************)
(* Specification: one Parse call on any input                              *)
(***************************************************************************)
ParseCall ==
  /\ pc = "idle"
  /\ \E s \in TokenInputs, kf \in KeyFuncs, t \in Times : ParseBegin(s, kf, t)
  /\ UNCHANGED <<builder, codec, req>>

Next ==
  \/ ParseCall
  \/ ParseHeader
  \/ ParseClaims
  \/ ParseMethod
  \/ ParseKey
  \/ ParseTime
  \/ ParseVerify
  \/ ParseFinal

Spec == Init /\ [][Next]_vars

(***************************************************************************)
(* Building and signing a token, then parsing what was signed              *)
(***************************************************************************)
frame == <<pc, tokenString, keyFunc, clock, parts, token, key, vErr, now, ret, calls>>

(* values a caller stores in Claims; FuncV stands for one json cannot marshal *)
CallerValues == {NumV(h) : h \in Halves} \cup {StrV(<<97>>), StrV(<<>>), FuncV}
CallerKeys == {K_exp, K_nbf, K_sub}
SigningKeys == Keys \cup {<<>>}

(* token := New(method) *)
NewToken(method) ==
  /\ pc = "idle"
  /\ ~tok.made
  /\ tok' = [made |-> TRUE, t |-> New(method)]
  /\ UNCHANGED <<out, codec, req, frame>>

(* token.Claims[k] = v, by the caller, before the token is signed *)
SetClaim(k, v) ==
  /\ pc = "idle"
  /\ tok.made
  /\ out.op = "none"
  /\ Cardinality(DOMAIN tok.t.Claims.kv \cup {k}) <= MaxClaims
  /\ tok' = [tok EXCEPT !.t.Claims = MakeMap(Put(tok.t.Claims.kv, k, v))]
  /\ UNCHANGED <<out, codec, req, frame>>

(* token.SigningString() *)
CallSigningString ==
  /\ pc = "idle"
  /\ tok.made
  /\ LET r == SigningString(tok.t)
     IN out' = [op |-> "SigningString", key |-> <<>>, s |-> r.s, err |-> r.err,
                signed |-> r.signed]
  /\ UNCHANGED <<tok, codec, req, frame>>

(* CallSignedString that keeps the signed string in the token's Raw *)
CallSignedString_StoresRaw(k) ==
  /\ pc = "idle"
  /\ tok.made
  /\ LET r == SignedString(tok.t, k)
     IN /\ out' = [op |-> "SignedString", key |-> k, s |-> r.s, err |-> r.err,
                   signed |-> r.signed]
        /\ tok' = [tok EXCEPT !.t.Raw = r.s]
  /\ UNCHANGED <<codec, req, frame>>

(* token.SignedString(key) *)
CallSignedString(k) ==
  /\ pc = "idle"
  /\ tok.made
  /\ LET r == SignedString(tok.t, k)
     IN out' = [op |-> "SignedString", key |-> k, s |-> r.s, err |-> r.err,
                signed |-> r.signed]
  /\ UNCHANGED <<tok, codec, req, frame>>

(* Parse(s, keyFunc) on the string the last signing call returned *)
ParseSigned ==
  /\ pc = "idle"
  /\ out.op # "none"
  /\ out.err.nil
  /\ \E kf \in KeyFuncs, t \in Times : ParseBegin(out.s, kf, t)
  /\ UNCHANGED <<builder, codec, req>>

NextRoundTrip ==
  \/ \E m \in RegisteredMethods : NewToken(m)
  \/ \E k \in CallerKeys, v \in CallerValues : SetClaim(k, v)
  \/ CallSigningString
  \/ \E k \in SigningKeys : CallSignedString(k)
  \/ ParseSigned
  \/ ParseHeader
  \/ ParseClaims
  \/ ParseMethod
  \/ ParseKey
  \/ ParseTime
  \/ ParseVerify
  \/ ParseFinal

SpecRoundTrip == Init /\ [][NextRoundTrip]_vars

(***************************************************************************)
(* Specification: EncodeSegment and DecodeSegment called on their own, and *)
(* Parse of a token carrying the segment that was decoded                  *)
(***************************************************************************)
MaxBytes == 3
MaxSeg == 5

RECURSIVE StringsOver(_, _)
StringsOver(A, n) ==
  IF n = 0 THEN {<<>>}
  ELSE LET S == StringsOver(A, n - 1)
       IN S \cup {Append(s, a) : s \in {x \in S : Len(x) = n - 1}, a \in A}

(* the bytes handed to EncodeSegment: NUL, the braces and 0xff *)
ByteInputs == StringsOver({0, LBRACE, RBRACE, 255}, MaxBytes)

(* the strings handed to DecodeSegment: 'A', line feed and '!', and the    *)
(* two well-formed segments followed by a line feed                        *)
SegmentInputs ==
  StringsOver({65, 10, 33}, MaxSeg)
  \cup {GoodHeader \o <<10>>, GoodClaims \o <<10>>, GoodHeader, GoodClaims}

(* EncodeSegment(b) *)
CallEncodeSegment(b) ==
  /\ codec.op = "none"
  /\ codec' = [op |-> "EncodeSegment", arg |-> b, ok |-> TRUE,
               res |-> EncodeSegment(b), orig |-> <<>>]
  /\ UNCHANGED <<builder, req, frame>>

(* DecodeSegment(s) *)
CallDecodeSegment(s) ==
  /\ codec.op = "none"
  /\ LET d == DecodeSegment(s)
     IN codec' = [op |-> "DecodeSegment", arg |-> s, ok |-> d.ok,
                  res |-> d.out, orig |-> <<>>]
  /\ UNCHANGED <<builder, req, frame>>

(* DecodeSegment on what EncodeSegment returned; orig keeps the bytes *)
DecodeEncoded ==
  /\ codec.op = "EncodeSegment"
  /\ LET d == DecodeSegment(codec.res)
     IN codec' = [op |-> "DecodeEncoded", arg |-> codec.res, ok |-> d.ok,
                  res |-> d.out, orig |-> codec.arg]
  /\ UNCHANGED <<builder, req, frame>>

(* Parse of a signed three-segment token whose header (i = 1) or claims    *)
(* (i = 2) segment is the string DecodeSegment was called on               *)
ParseSegment ==
  /\ pc = "idle"
  /\ codec.op = "DecodeSegment"
  /\ \E i \in 1..2 :
       LET h == IF i = 1 THEN codec.arg ELSE GoodHeader
           c == IF i = 2 THEN codec.arg ELSE GoodClaims
       IN ParseBegin(Join(<<h, c, SigOf(S_HS256, h, c, KeyA)>>),
                     [key |-> KeyA, err |-> NoErr], 0)
  /\ UNCHANGED <<builder, codec, req>>

NextCodec ==
  \/ \E b \in ByteInputs : CallEncodeSegment(b)
  \/ \E s \in SegmentInputs : CallDecodeSegment(s)
  \/ DecodeEncoded
  \/ ParseSegment
  \/ ParseHeader
  \/ ParseClaims
  \/ ParseMethod
  \/ ParseKey
  \/ ParseTime
  \/ ParseVerify
  \/ ParseFinal

SpecCodec == Init /\ [][NextCodec]_vars

(***************************************************************************)
(* Specification: one ParseFromRequest call                                *)
(***************************************************************************)
S_BEARER == <<66, 69, 65, 82, 69, 82>>
SPACE == 32

(* strings.ToUpper, on ASCII *)
ToUpper(s) == [i \in 1..Len(s) |-> IF s[i] \in 97..122 THEN s[i] - 32 ELSE s[i]]

(* lines 187-205; the request is its Authorization header and its          *)
(* access_token parameter, "" when absent                                  *)
ParseFromRequest(r, kf, t) ==
  /\ pc = "idle"
  /\ req.source = "none"
  /\ IF r.auth # <<>> /\ Len(r.auth) > 6 /\ ToUpper(SubSeq(r.auth, 1, 6)) = S_BEARER
     THEN /\ req' = [auth |-> r.auth, form |-> r.form, source |-> "header", err |-> NoErr]
          /\ ParseBegin(SubSeq(r.auth, 8, Len(r.auth)), kf, t)
     ELSE IF r.form # <<>>
     THEN /\ req' = [auth |-> r.auth, form |-> r.form, source |-> "form", err |-> NoErr]
          /\ ParseBegin(r.form, kf, t)
     ELSE /\ req' = [auth |-> r.auth, form |-> r.form, source |-> "absent",
                     err |-> Err("No token present in request.")]
          /\ pc' = "done"
          /\ ret' = [tokenNil |-> TRUE, errNil |-> FALSE, ve |-> ZeroValidationError]
          /\ UNCHANGED <<args, token, key, vErr, now, calls>>
  /\ UNCHANGED <<builder, codec>>

(* two signed tokens, so that the one Parse received can be told *)
HeaderToken == Join(<<GoodHeader, GoodClaims, SigOf(S_HS256, GoodHeader, GoodClaims, KeyA)>>)
FormToken ==
  Join(<<Seg(New(S_HS384).Header), GoodClaims,
         SigOf(S_HS384, Seg(New(S_HS384).Header), GoodClaims, KeyA)>>)

(* Authorization values: "Bearer ", "bearer ", "BEARER " and "BearerX"     *)
(* before a token, the bare scheme with and without the space, another     *)
(* scheme, a short value, and no header                                    *)
AuthInputs ==
  { <<66, 101, 97, 114, 101, 114, SPACE>> \o HeaderToken,
    <<98, 101, 97, 114, 101, 114, SPACE>> \o HeaderToken,
    S_BEARER \o <<SPACE>> \o HeaderToken,
    <<66, 101, 97, 114, 101, 114, 88>> \o HeaderToken,
    <<66, 101, 97, 114, 101, 114, SPACE>>,
    <<66, 101, 97, 114, 101, 114>>,
    <<66, 97, 115, 105, 99, SPACE>> \o HeaderToken,
    <<66, 101, 97, 114>>,
    <<>> }

Requests == {[auth |-> a, form |-> f] : a \in AuthInputs, f \in {<<>>, FormToken}}

RequestCall ==
  /\ pc = "idle"
  /\ \E r \in Requests, kf \in KeyFuncs, t \in Times : ParseFromRequest(r, kf, t)

NextRequest ==
  \/ RequestCall
  \/ ParseHeader
  \/ ParseClaims
  \/ ParseMethod
  \/ ParseKey
  \/ ParseTime
  \/ ParseVerify
  \/ ParseFinal

SpecRequest == Init /\ [][NextRequest]_vars

(***************************************************************************)
(* Properties                                                              *)
(***************************************************************************)
Done == pc = "done"
Segments == Len(Split(tokenString))

(* the flags of a ValidationError *)
Flags(e) ==
  {f \in {"Malformed", "Unverifiable", "SignatureInvalid", "Expired", "NotValidYet"} :
     \/ f = "Malformed" /\ e.Malformed
     \/ f = "Unverifiable" /\ e.Unverifiable
     \/ f = "SignatureInvalid" /\ e.SignatureInvalid
     \/ f = "Expired" /\ e.Expired
     \/ f = "NotValidYet" /\ e.NotValidYet}

Called(fn) == \E i \in 1..Len(calls) : calls[i].fn = fn
TimesCalled(fn) == Cardinality({i \in 1..Len(calls) : calls[i].fn = fn})

(* what the segments of the input hold, read off the input itself *)
InHeader == Unmarshal(DecodeSegment(Split(tokenString)[1]).out, NilMap)
InClaims == Unmarshal(DecodeSegment(Split(tokenString)[2]).out, NilMap)
HeaderDecodes ==
  /\ Segments = 3
  /\ LET d == DecodeSegment(Split(tokenString)[1])
     IN d.ok /\ Unmarshal(d.out, NilMap).ok
ClaimsDecode ==
  /\ Segments = 3
  /\ LET d == DecodeSegment(Split(tokenString)[2])
     IN d.ok /\ Unmarshal(d.out, NilMap).ok
AlgResolves ==
  /\ Segments = 3
  /\ LET d == DecodeSegment(Split(tokenString)[1])
         h == Unmarshal(d.out, NilMap)
     IN /\ d.ok /\ h.ok
        /\ IsString(h.m, K_alg)
        /\ h.m.kv[K_alg].s \in RegisteredMethods
  /\ ClaimsDecode
ReachesTemporal == AlgResolves /\ keyFunc.err.nil
SignatureVerifies ==
  Verify(InHeader.m.kv[K_alg].s, Join(SubSeq(Split(tokenString), 1, 2)),
         Split(tokenString)[3], keyFunc.key).nil

(* C1: a token built with New and signed with a key parses back, with a    *)
(* keyFunc returning that key and no exp in the past or nbf in the future, *)
(* to a nil error and a token with Valid = true and the original claims.   *)
C1_RoundTrip ==
  (/\ Done
   /\ out.op = "SignedString"
   /\ keyFunc = [key |-> out.key, err |-> NoErr]
   /\ ~(IsFloat64(tok.t.Claims, K_exp) /\ tok.t.Claims.kv[K_exp].h < 2 * clock)
   /\ ~(IsFloat64(tok.t.Claims, K_nbf) /\ tok.t.Claims.kv[K_nbf].h > 2 * clock))
  => (ret.errNil /\ ~ret.tokenNil /\ token.Valid /\ token.Claims = tok.t.Claims)

(* C2: Parse returns a nil error exactly when the returned token has       *)
(* Valid = true; Valid = true only after three segments, decoded header    *)
(* and claims, a resolved algorithm, a successful keyFunc, no Expired or   *)
(* NotValidYet flag and a Verify without error; a token returned with an   *)
(* error has Valid = false.                                                *)
C2_NilErrorIffValid ==
  /\ token.Valid => Done
  /\ Done => (ret.errNil <=> (~ret.tokenNil /\ token.Valid))
  /\ (Done /\ token.Valid) =>
       /\ ReachesTemporal
       /\ token.Method # NoMethod
       /\ ~vErr.Expired /\ ~vErr.NotValidYet
       /\ Called("Verify") /\ SignatureVerifies
  /\ (Done /\ ~ret.errNil) => ~token.Valid

C2_Witness == Done /\ ret.errNil /\ token.Valid /\ ~ret.tokenNil

(* C3: an input whose number of segments is not 3 fails with Malformed as  *)
(* the only flag, and Parse calls neither keyFunc, the time source nor     *)
(* Verify.                                                                 *)
C3_SegmentCount ==
  (pc # "idle" /\ Segments # 3) =>
     /\ calls = <<>>
     /\ Done
     /\ ~ret.errNil
     /\ Flags(ret.ve) = {"Malformed"}

C3_Witness == Done /\ Segments = 4 /\ Flags(ret.ve) = {"Malformed"}

(* C4: three segments whose header and claims decode, with alg missing,    *)
(* not a string or not registered: Parse fails with Unverifiable as the    *)
(* only flag and calls neither keyFunc nor Verify.                         *)
C4_AlgUnresolved ==
  (pc # "idle" /\ ~AlgResolves /\ HeaderDecodes /\ ClaimsDecode) =>
     /\ ~Called("keyFunc") /\ ~Called("Verify")
     /\ Done => (~ret.errNil /\ Flags(ret.ve) = {"Unverifiable"})

C4_Witness ==
  /\ Done /\ HeaderDecodes /\ ClaimsDecode
  /\ IsString(InHeader.m, K_alg) /\ InHeader.m.kv[K_alg].s = S_RS256
  /\ Flags(ret.ve) = {"Unverifiable"}

(* C5: keyFunc is never invoked more than once; when the algorithm         *)
(* resolves it is invoked exactly once, with token.Method already set to   *)
(* the resolved method, and before the time source is read, before any     *)
(* exp/nbf flag is set and before Verify is called.                        *)
C5_KeyFuncOnce ==
  /\ TimesCalled("keyFunc") <= 1
  /\ (Done /\ AlgResolves) => TimesCalled("keyFunc") = 1
  /\ \A i \in 1..Len(calls) :
       IF calls[i].fn = "keyFunc"
       THEN i = 1 /\ calls[i].method = InHeader.m.kv[K_alg].s
                  /\ calls[i].method \in RegisteredMethods
       ELSE i > 1
  /\ ~Called("keyFunc") => (vErr = ZeroValidationError /\ now = 0)

C5_Witness ==
  /\ Done /\ AlgResolves
  /\ Len(calls) = 3
  /\ calls[1].fn = "keyFunc" /\ calls[2].fn = "TimeFunc" /\ calls[3].fn = "Verify"

(* the exp and nbf of the input, when they are JSON numbers, against the   *)
(* second the time source reports (claims are counted in halves)           *)
ExpInPast == LET c == InClaims.m IN IsFloat64(c, K_exp) /\ c.kv[K_exp].h < 2 * clock
NbfInFuture == LET c == InClaims.m IN IsFloat64(c, K_nbf) /\ c.kv[K_nbf].h > 2 * clock

(* C6: a token that reaches temporal validation always has Verify called,  *)
(* whatever the exp/nbf checks found, and one whose numeric exp is in the  *)
(* past and whose signature fails yields one error with both Expired and   *)
(* SignatureInvalid.                                                       *)
C6_Accumulate ==
  (Done /\ ReachesTemporal) =>
     /\ Called("Verify")
     /\ (ExpInPast /\ ~SignatureVerifies) =>
          (~ret.errNil /\ ret.ve.Expired /\ ret.ve.SignatureInvalid)

(* C7: a token that reaches temporal validation with a numeric exp         *)
(* strictly less than the current time and a verifying signature yields an *)
(* error with Expired, without SignatureInvalid, and Valid = false.        *)
C7_Expired ==
  (Done /\ ReachesTemporal /\ ExpInPast /\ SignatureVerifies) =>
     /\ ~ret.errNil
     /\ ret.ve.Expired /\ ~ret.ve.SignatureInvalid
     /\ ~Valid(ret.ve)
     /\ ~token.Valid

(* C8: a token that reaches temporal validation with a numeric nbf         *)
(* strictly greater than the current time yields an error with NotValidYet *)
(* and Valid = false.                                                      *)
C8_NotValidYet ==
  (Done /\ ReachesTemporal /\ NbfInFuture) =>
     (~ret.errNil /\ ret.ve.NotValidYet /\ ~token.Valid)

Exclusive(e) ==
  /\ e.Malformed => Flags(e) = {"Malformed"}
  /\ e.Unverifiable => Flags(e) = {"Unverifiable"}

(* C9: in every ValidationError of Parse, Malformed excludes every other   *)
(* flag and so does Unverifiable; only SignatureInvalid, Expired and       *)
(* NotValidYet are set together.                                           *)
C9_ExclusiveFlags == Exclusive(vErr) /\ Exclusive(ret.ve)

C9_Witness ==
  /\ Done /\ ~ret.errNil
  /\ Flags(ret.ve) = {"SignatureInvalid", "Expired", "NotValidYet"}

(* C10: for an input of exactly 3 segments Parse returns a non-nil token   *)
(* whose Raw is the input, whatever the error; it returns a nil token only *)
(* for another number of segments.                                         *)
C10_TokenReturned ==
  Done =>
    /\ Segments = 3 => (~ret.tokenNil /\ token.Raw = tokenString)
    /\ ret.tokenNil <=> Segments # 3

C10_Witness ==
  /\ Done /\ Segments = 3
  /\ ~ret.tokenNil /\ token.Raw = tokenString
  /\ ret.ve.Malformed

(* C11: for every byte string b, DecodeSegment(EncodeSegment(b)) succeeds  *)
(* and returns b: DecodeSegment restores the padding EncodeSegment         *)
(* stripped, so that the padded length is a multiple of 4.                 *)
C11_DecodeEncoded ==
  codec.op = "DecodeEncoded" =>
     /\ codec.arg = EncodeSegment(codec.orig)
     /\ codec.ok
     /\ codec.res = codec.orig

(* the Authorization value starts, in any case, with "Bearer " *)
HasBearerPrefix(ah) ==
  Len(ah) >= 7 /\ ToUpper(SubSeq(ah, 1, 7)) = S_BEARER \o <<SPACE>>

(* C12: ParseFromRequest parses the Authorization header only when it      *)
(* starts, case-insensitively, with the seven characters "Bearer ", and    *)
(* then parses exactly the remainder; for any other value it falls back to *)
(* the access_token parameter; when neither yields a token it returns a    *)
(* nil token and a 'no token present' error without calling Parse.         *)
C12_BearerPrefix ==
  req.source # "none" =>
     IF HasBearerPrefix(req.auth)
     THEN req.source = "header" /\ tokenString = SubSeq(req.auth, 8, Len(req.auth))
     ELSE IF req.form # <<>>
     THEN req.source = "form" /\ tokenString = req.form
     ELSE /\ req.source = "absent"
          /\ Done /\ ret.tokenNil /\ ~ret.errNil
          /\ req.err = Err("No token present in request.")
          /\ parts = <<>> /\ calls = <<>>

(* C13: for every Parse call that reaches signature verification, the      *)
(* returned token's Signature holds the signature taken from the third     *)
(* segment of the input and is non-empty when that segment is non-empty.   *)
C13_SignaturePopulated ==
  (Done /\ Called("Verify") /\ Split(tokenString)[3] # <<>>) =>
     /\ ~ret.tokenNil
     /\ token.Signature # <<>>

(* the fields New sets, whatever the caller put into Claims afterwards *)
NewFields(t) ==
  /\ t.Raw = <<>> /\ t.Signature = <<>> /\ ~t.Valid
  /\ t.Method \in RegisteredMethods
  /\ ~t.Header.nil
  /\ DOMAIN t.Header.kv = {K_typ, K_alg}
  /\ t.Header.kv[K_typ] = StrV(S_JWT)
  /\ t.Header.kv[K_alg] = StrV(Alg(t.Method))
  /\ ~t.Claims.nil

(* C14: a token created by New(method) has Raw = "", Signature = "",       *)
(* Valid = false, Method = method, an empty Claims map and a Header with   *)
(* exactly typ = "JWT" and alg = method.Alg(); every SigningString and     *)
(* SignedString call on it, successful or failing, leaves Raw, Signature,  *)
(* Valid, Method, Header and Claims unchanged.                             *)
C14_NewAndFrame ==
  /\ [](tok.made => NewFields(tok.t))
  /\ [][/\ (~tok.made /\ tok'.made) =>
             (NewFields(tok'.t) /\ tok'.t.Claims = MakeMap(EmptyKV))
        /\ (out' # out \/ (tok.made /\ tok'.t.Claims = tok.t.Claims)) => tok' = tok]_vars

C14_Witness ==
  /\ tok.made /\ NewFields(tok.t)
  /\ tok.t.Claims.kv # EmptyKV
  /\ out.op = "SignedString" /\ out.err.nil /\ out.s # <<>>

(* C15: SignedString(key) returns, on success, SigningString() + "." + the *)
(* signature Method.Sign(SigningString(), key) returned, a string of three *)
(* dot-separated segments; if serialization of header or claims fails it   *)
(* returns "" with that error and Method.Sign is never called; if          *)
(* Method.Sign fails it returns "" with that error.                        *)
C15_SignedString ==
  out.op = "SignedString" =>
     LET ss == SigningString(tok.t)
         sg == Sign(tok.t.Method, ss.s, out.key)
     IN IF ~ss.err.nil
        THEN out.s = <<>> /\ out.err = ss.err /\ ~out.signed
        ELSE IF ~sg.err.nil
        THEN out.s = <<>> /\ out.err = sg.err
        ELSE /\ out.err.nil
             /\ out.s = ss.s \o <<DOT>> \o sg.sig
             /\ Len(Split(out.s)) = 3

C15_Witness ==
  /\ out.op = "SignedString" /\ out.err.nil
  /\ Len(Split(out.s)) = 3
  /\ Split(out.s)[3] = Sign(tok.t.Method, SigningString(tok.t).s, out.key).sig
  /\ Split(out.s)[3] # <<>>

(* C16: DecodeSegment fails for every input string whose length is 1       *)
(* modulo 4, whatever its characters, and Parse returns a Malformed error  *)
(* for every three-segment token whose header or claims segment has such   *)
(* a length.                                                               *)
C16_LengthOneModFour ==
  (codec.op = "DecodeSegment" /\ Len(codec.arg) % 4 = 1) =>
     /\ ~codec.ok
     /\ Done => (Segments = 3 /\ ~ret.errNil /\ ret.ve.Malformed)

(* C17: whenever Parse returns anything other than a Malformed error, the  *)
(* returned token's Header and Claims are both non-nil maps, for every     *)
(* header or claims segment that decodes to valid JSON, the JSON null      *)
(* included.                                                               *)
C17_MapsPopulated ==
  (Done /\ ~ret.ve.Malformed) =>
     /\ ~ret.tokenNil
     /\ ~token.Header.nil
     /\ ~token.Claims.nil

(* the input is BaseToken with one character of its header or claims       *)
(* segment changed *)
IsTampered ==
  /\ Len(tokenString) = Len(BaseToken)
  /\ Cardinality({i \in 1..Len(BaseToken) : tokenString[i] # BaseToken[i]}) = 1
  /\ Split(tokenString)[3] = Split(BaseToken)[3]

(* C18: Method.Verify is called with the first two raw segments of the     *)
(* input joined by '.', the raw third segment and the key keyFunc          *)
(* returned, never with a re-serialization of header and claims; a token   *)
(* in which one character of the header or claims segment was changed      *)
(* without re-signing, and which still decodes and resolves its algorithm, *)
(* yields SignatureInvalid = true.                                         *)
C18_VerifyRawSegments ==
  /\ \A i \in 1..Len(calls) :
       calls[i].fn = "Verify" =>
          /\ Segments = 3
          /\ calls[i].sstr = Split(tokenString)[1] \o <<DOT>> \o Split(tokenString)[2]
          /\ calls[i].sig = Split(tokenString)[3]
          /\ calls[i].key = keyFunc.key
          /\ keyFunc.err.nil
  /\ (Done /\ IsTampered /\ ReachesTemporal /\ keyFunc.key = KeyA) =>
       (~ret.errNil /\ ret.ve.SignatureInvalid /\ ~token.Valid)

C18_Witness ==
  /\ Done /\ IsTampered /\ ReachesTemporal /\ keyFunc.key = KeyA
  /\ Called("Verify")
  /\ ret.ve.SignatureInvalid
  /\ InClaims.m # Unmarshal(DecodeSegment(GoodClaims).out, NilMap).m

(* C19: when keyFunc returns an error, Parse stops at that stage: it       *)
(* returns the non-nil token with Valid = false and a ValidationError      *)
(* whose only flag is Unverifiable and whose message is the callback's,    *)
(* and neither the time source is read nor Method.Verify called.           *)
C19_KeyFuncError ==
  (Called("keyFunc") /\ ~keyFunc.err.nil) =>
     /\ Done
     /\ ~Called("TimeFunc") /\ ~Called("Verify")
     /\ Len(calls) = 1
     /\ now = 0 /\ vErr = ZeroValidationError
     /\ ~ret.tokenNil /\ ~ret.errNil
     /\ ~token.Valid /\ token.Raw = tokenString
     /\ Flags(ret.ve) = {"Unverifiable"}
     /\ ret.ve.err = keyFunc.err.msg

C19_Witness ==
  /\ Done /\ Called("keyFunc") /\ ~keyFunc.err.nil
  /\ AlgResolves
  /\ ret.ve.Unverifiable /\ ret.ve.err = "key lookup failed"
  /\ ExpInPast

(* a temporal flag of e has its cause in the claims of the input *)
Caused(e) ==
  /\ e.Expired => ExpInPast
  /\ e.NotValidYet => NbfInFuture

====
